---- MODULE Spec2Model ----
(***************************************************************************)
(* Config/State store of the number-display kiosk backend (server.py).     *)
(*                                                                         *)
(* The state is the document store (one sequence of documents per          *)
(* collection, in insertion order), the wall clock read by                 *)
(* datetime.utcnow(), the uuid source, and the requests: each request is   *)
(* one run of a handler coroutine, suspended at an await between two       *)
(* steps.  One step is one store operation together with the synchronous  *)
(* code that follows it up to the next await (or to the return).           *)
(*                                                                         *)
(* Values: a text, boolean or float field holds its JSON literal           *)
(* ("'ROMA'", "true", "1.0", "null"); number, order and the timestamps     *)
(* are integers (timestamps in clock ticks of the store's resolution).     *)
(* An optional value is a sequence of length 0 (None) or 1; the order of a  *)
(* slide is held that way, since the store can hold null in it.            *)
(***************************************************************************)
EXTENDS Integers, Sequences, FiniteSets, TLC

VARIABLES db, now, nextId, reqs

vars == <<db, now, nextId, reqs>>

(* ------------------------------ bounds -------------------------------- *)

\* requests per run
MaxReqs == 3
\* requests in flight at the same time in the concurrent specifications
MaxConc == 2
\* last tick of the wall clock
MaxClock == 1
\* PUT /number bodies carry an integer of -MaxPut .. MaxPut
MaxPut == 2

PutVals == (0 - MaxPut) .. MaxPut
\* POST /slides bodies carry an order of 0 .. MaxOrder, or null
MaxOrder == 1

\* to_list(100) of get_slides
ListCap == 100

\* feed.entries[:20] of get_news_feed
NewsCap == 20

(* --------------------------- document store --------------------------- *)

Collections == {"app_config", "slide_images", "slide_settings",
                "current_number", "bluetooth_remote", "voice_settings"}

\* indexes of the documents of coll whose id is id, in store order
Matches(coll, id) == {k \in 1..Len(coll) : coll[k].id = id}

Min(S) == CHOOSE k \in S : \A j \in S : k <= j

FindNothing(coll, id) == <<>>

\* find_one({"id": id}): the first match, or None
find_one(coll, id) ==
    IF Matches(coll, id) = {} THEN <<>> ELSE <<coll[Min(Matches(coll, id))]>>

\* insert_one(doc): no unique index exists on "id"
insert_one(coll, doc) == Append(coll, doc)

\* $set: the fields of set overwrite or extend the document
SetFields(doc, set) ==
    [f \in (DOMAIN doc) \cup (DOMAIN set) |->
        IF f \in DOMAIN set THEN set[f] ELSE doc[f]]

\* update_one({"id": id}, {"$set": set}, upsert): the first match is updated;
\* without a match an upsert inserts the filter's equality field plus the set
update_one(coll, id, set, upsert) ==
    IF Matches(coll, id) # {}
    THEN [coll EXCEPT ![Min(Matches(coll, id))] = SetFields(@, set)]
    ELSE IF upsert THEN Append(coll, SetFields([id |-> id], set))
         ELSE coll

DeleteOldest(coll, id) == IF Matches(coll, id) = {} THEN coll ELSE Tail(coll)

\* delete_one({"id": id}): the first match is removed
delete_one(coll, id) ==
    IF Matches(coll, id) = {} THEN coll
    ELSE LET k == Min(Matches(coll, id))
         IN  [j \in 1..(Len(coll) - 1) |-> IF j < k THEN coll[j] ELSE coll[j + 1]]

deleted_count(coll, id) == IF Matches(coll, id) = {} THEN 0 ELSE 1

\* the store's order of two values of the field order: null sorts before
\* every number
OrderLess(a, b) ==
    \/ a = <<>> /\ b # <<>>
    \/ a # <<>> /\ b # <<>> /\ a[1] < b[1]

\* the orders in which a sort on order can deliver the documents of coll at
\* the indexes S: documents with equal order come in any order
RECURSIVE SortedFrom(_, _)
SortedFrom(coll, S) ==
    IF S = {} THEN {<<>>}
    ELSE UNION {{<<coll[k]>> \o rest : rest \in SortedFrom(coll, S \ {k})} :
                   k \in {j \in S : \A m \in S :
                                       ~OrderLess(coll[m].order, coll[j].order)}}

\* find().sort("order", 1).to_list(n): the first n documents of a sort
find_sort_to_list(coll, n) ==
    {SubSeq(sorted, 1, IF Len(sorted) < n THEN Len(sorted) ELSE n) :
        sorted \in SortedFrom(coll, 1..Len(coll))}

(* ------------------------------ models -------------------------------- *)

CurrentNumberFromZero(t) == [id |-> "current_number", number |-> 0, updated_at |-> t]

\* CurrentNumber(): the defaults, updated_at from utcnow()
CurrentNumber(t) == [id |-> "current_number", number |-> 1, updated_at |-> t]

\* AppConfig(): the defaults, created_at and updated_at from utcnow()
AppConfig(t) ==
    [id |-> "main_config",
     restaurant_name |-> "'Number ONE'",
     city |-> "'ROMA'",
     logo_base64 |-> "null",
     theme_primary_color |-> "'#FF0000'",
     theme_secondary_color |-> "'#2C3E50'",
     theme_text_color |-> "'#FFFFFF'",
     rss_feed_url |-> "'https://news.google.com/rss?hl=it&gl=IT&ceid=IT:it'",
     weather_api_key |-> "null",
     created_at |-> t,
     updated_at |-> t]

\* SlideSettings(): the defaults
SlideSettings(t) ==
    [id |-> "slide_settings",
     interval_seconds |-> "10",
     transition_effect |-> "'fade'",
     auto_play |-> "true"]

\* BluetoothRemote(): the defaults
BluetoothRemote(t) ==
    [id |-> "bluetooth_remote",
     device_name |-> "null",
     device_id |-> "null",
     button_a_action |-> "'increment'",
     button_b_action |-> "'decrement'",
     button_c_action |-> "'reset'",
     button_d_action |-> "'none'",
     is_paired |-> "false"]

\* VoiceSettings(): the defaults
VoiceSettings(t) ==
    [id |-> "voice_settings",
     enabled |-> "true",
     voice_type |-> "'female'",
     pitch |-> "1.0",
     rate |-> "1.0",
     phrase_template |-> "'Numero {number}'",
     language |-> "'it-IT'"]

\* SlideImage(**slide.dict()): id from uuid4(), created_at from utcnow()
SlideImage(id, slide, t) ==
    [id |-> id, image_base64 |-> slide.image_base64, order |-> slide.order,
     created_at |-> t]

\* the bodies of SlideImageCreate that are tried: order is an integer, or None
\* when the body sends null; a body without order is the body with order 0
SlideImageCreate ==
    [image_base64 : {"'iVBOR'"},
     order : {<<>>} \cup {<<n>> : n \in 0..MaxOrder}]

\* Model(**doc): the model's fields, absent ones at the defaults of the
\* moment of the call; other keys are ignored
Parse(defaults, doc) ==
    [f \in DOMAIN defaults |-> IF f \in DOMAIN doc THEN doc[f] ELSE defaults[f]]

\* CurrentNumber(**doc)
ParseCurrentNumber(doc, t) == Parse(CurrentNumber(t), doc)

\* the values the bodies of the update models are drawn from, per field;
\* "null" is a field left out or sent as null
AppConfigUpdate ==
    [restaurant_name |-> {"'Uno'"},
     city |-> {"'MILANO'"},
     logo_base64 |-> {"'iVBOR'"},
     theme_primary_color |-> {"'#00FF00'"},
     theme_secondary_color |-> {"'#000000'"},
     theme_text_color |-> {"'#111111'"},
     rss_feed_url |-> {"'https://example.org/rss'"},
     weather_api_key |-> {"'key'"}]

SlideSettingsUpdate ==
    [interval_seconds |-> {"0", "5"},
     transition_effect |-> {"'zoom'"},
     auto_play |-> {"false"}]

BluetoothRemoteUpdate ==
    [device_name |-> {"'Remote'"},
     device_id |-> {"'AA:BB'"},
     button_a_action |-> {"'none'"},
     button_b_action |-> {"'reset'"},
     button_c_action |-> {"'increment'"},
     button_d_action |-> {"'decrement'"},
     is_paired |-> {"true", "false"}]

VoiceSettingsUpdate ==
    [enabled |-> {"false"},
     voice_type |-> {"'male'"},
     pitch |-> {"0.0"},
     rate |-> {"2.0"},
     phrase_template |-> {"'Number'"},
     language |-> {"'en-US'"}]

\* the bodies of an update model that are tried: those supplying no field,
\* one field, or every field, with every value of the table above
Bodies(Update) ==
    UNION {
        {[f \in DOMAIN Update |-> IF f \in S THEN v[f] ELSE "null"] :
            v \in {w \in [S -> UNION {Update[f] : f \in S}] :
                      \A f \in S : w[f] \in Update[f]}} :
        S \in {T \in SUBSET (DOMAIN Update) :
                  Cardinality(T) <= 1 \/ T = DOMAIN Update}}

AppConfigUpdateBodies == Bodies(AppConfigUpdate)

SlideSettingsUpdateBodies == Bodies(SlideSettingsUpdate)

BluetoothRemoteUpdateBodies == Bodies(BluetoothRemoteUpdate)

VoiceSettingsUpdateBodies == Bodies(VoiceSettingsUpdate)

OnlyTruthy(body) ==
    [f \in {g \in DOMAIN body : body[g] \notin {"null", "false", "0", "0.0", "''"}} |->
        body[f]]

KeepNone(body) == body

\* {k: v for k, v in update.dict().items() if v is not None}
NotNone(body) == [f \in {g \in DOMAIN body : body[g] # "null"} |-> body[f]]

(* ----------------------------- requests ------------------------------- *)

Done(r) == r.pc = "done"

InFlight == {i \in 1..Len(reqs) : ~Done(reqs[i])}

\* a request is accepted while the run has had fewer than lim.reqs requests
\* and fewer than lim.conc of them are in flight
CanArrive(lim) ==
    /\ Len(reqs) < lim.reqs
    /\ Cardinality(InFlight) < lim.conc

\* requests served one at a time, requests interleaved at their awaits, and
\* the shorter one-at-a-time runs over all the singletons; items is the
\* length of the longest list a PUT /slides/reorder body carries
OneByOne == [reqs |-> MaxReqs, conc |-> 1, items |-> 2]

Interleaved == [reqs |-> MaxReqs, conc |-> MaxConc, items |-> 2]

ShortOneByOne == [reqs |-> MaxReqs - 1, conc |-> 1, items |-> 2]

Ok(body) == <<[status |-> 200, body |-> body]>>

Error(status) == <<[status |-> status]>>

\* pre is the store as the request found it on arrival (a history field,
\* read by no handler)
NewReq(op, arg, pc, loc, resp) ==
    [op |-> op, arg |-> arg, pc |-> pc, loc |-> loc, resp |-> resp, pre |-> db]

Arrive(r) == reqs' = Append(reqs, r)

Resume(i, pc, loc, resp) ==
    reqs' = [reqs EXCEPT ![i] = [@ EXCEPT !.pc = pc, !.loc = loc, !.resp = resp]]

At(i, op, pc) == i \in 1..Len(reqs) /\ reqs[i].op = op /\ reqs[i].pc = pc

NoLoc == [none |-> TRUE]

NoArg == [none |-> TRUE]

\* dict.get(f, default)
Get(doc, f, default) == IF f \in DOMAIN doc THEN doc[f] ELSE default

Max(a, b) == IF a >= b THEN a ELSE b

SetCollConfig(name, coll) == db' = [db EXCEPT !["app_config"] = coll]

\* db.<name>: the write of a handler lands in the collection it names
SetColl(name, coll) == db' = [db EXCEPT ![name] = coll]

(* ------------------------------ clock ---------------------------------- *)

Tick ==
    /\ now < MaxClock
    /\ now' = now + 1
    /\ UNCHANGED <<db, nextId, reqs>>

Init ==
    /\ db = [c \in Collections |-> <<>>]
    /\ now = 0
    /\ nextId = 1
    /\ reqs = <<>>

(* ------------------------ current number handlers --------------------- *)

\* return CurrentNumber(**number) after the closing find_one; the model
\* cannot be built from None
NumberResponse(found) ==
    IF found = <<>> THEN Error(500) ELSE Ok(ParseCurrentNumber(found[1], now))

\* GET /number
get_current_number(lim) ==
    \/ /\ CanArrive(lim)
       /\ LET number == find_one(db.current_number, "current_number")
          IN  IF number = <<>>
              THEN Arrive(NewReq("get_number", NoArg, "insert",
                                 [doc |-> CurrentNumber(now)], <<>>))
              ELSE Arrive(NewReq("get_number", NoArg, "done", NoLoc,
                                 Ok(ParseCurrentNumber(number[1], now))))
       /\ UNCHANGED <<db, now, nextId>>
    \/ \E i \in 1..Len(reqs) :
       /\ At(i, "get_number", "insert")
       /\ SetColl("current_number", insert_one(db.current_number, reqs[i].loc.doc))
       /\ Resume(i, "done", NoLoc, Ok(reqs[i].loc.doc))
       /\ UNCHANGED <<now, nextId>>

\* PUT /number
update_number(lim) ==
    \/ \E n \in PutVals :
       /\ CanArrive(lim)
       /\ SetColl("current_number",
                  update_one(db.current_number, "current_number",
                             [number |-> n, updated_at |-> now], TRUE))
       /\ Arrive(NewReq("put_number", [number |-> n], "find", NoLoc, <<>>))
       /\ UNCHANGED <<now, nextId>>
    \/ \E i \in 1..Len(reqs) :
       /\ At(i, "put_number", "find")
       /\ Resume(i, "done", NoLoc,
                 NumberResponse(find_one(db.current_number, "current_number")))
       /\ UNCHANGED <<db, now, nextId>>

IncrementedByTwo(current) == Get(current, "number", 1) + 2

\* new_number = current.get("number", 1) + 1
IncrementedNumber(current) == Get(current, "number", 1) + 1

DecrementedUnclamped(current) == Get(current, "number", 1) - 1

DecrementedFloorTwo(current) == Max(2, Get(current, "number", 1) - 1)

\* new_number = max(1, current.get("number", 1) - 1)
DecrementedNumber(current) == Max(1, Get(current, "number", 1) - 1)

\* POST /number/increment: find_one, insert_one of the default when absent,
\* update_one without upsert, find_one
increment_number(lim) ==
    \/ /\ CanArrive(lim)
       /\ LET current == find_one(db.current_number, "current_number")
          IN  IF current = <<>>
              THEN Arrive(NewReq("increment", NoArg, "insert",
                                 [doc |-> CurrentNumber(now)], <<>>))
              ELSE Arrive(NewReq("increment", NoArg, "update",
                                 [set |-> [number |-> IncrementedNumber(current[1]),
                                           updated_at |-> now]], <<>>))
       /\ UNCHANGED <<db, now, nextId>>
    \/ \E i \in 1..Len(reqs) :
       /\ At(i, "increment", "insert")
       /\ SetColl("current_number", insert_one(db.current_number, reqs[i].loc.doc))
       /\ Resume(i, "update",
                 [set |-> [number |-> IncrementedNumber(reqs[i].loc.doc),
                           updated_at |-> now]], <<>>)
       /\ UNCHANGED <<now, nextId>>
    \/ \E i \in 1..Len(reqs) :
       /\ At(i, "increment", "update")
       /\ SetColl("current_number",
                  update_one(db.current_number, "current_number",
                             reqs[i].loc.set, FALSE))
       /\ Resume(i, "find", NoLoc, <<>>)
       /\ UNCHANGED <<now, nextId>>
    \/ \E i \in 1..Len(reqs) :
       /\ At(i, "increment", "find")
       /\ Resume(i, "done", NoLoc,
                 NumberResponse(find_one(db.current_number, "current_number")))
       /\ UNCHANGED <<db, now, nextId>>

\* POST /number/decrement: find_one, insert_one of the default when absent,
\* update_one without upsert, find_one
decrement_number(lim) ==
    \/ /\ CanArrive(lim)
       /\ LET current == find_one(db.current_number, "current_number")
          IN  IF current = <<>>
              THEN Arrive(NewReq("decrement", NoArg, "insert",
                                 [doc |-> CurrentNumber(now)], <<>>))
              ELSE Arrive(NewReq("decrement", NoArg, "update",
                                 [set |-> [number |-> DecrementedNumber(current[1]),
                                           updated_at |-> now]], <<>>))
       /\ UNCHANGED <<db, now, nextId>>
    \/ \E i \in 1..Len(reqs) :
       /\ At(i, "decrement", "insert")
       /\ SetColl("current_number", insert_one(db.current_number, reqs[i].loc.doc))
       /\ Resume(i, "update",
                 [set |-> [number |-> DecrementedNumber(reqs[i].loc.doc),
                           updated_at |-> now]], <<>>)
       /\ UNCHANGED <<now, nextId>>
    \/ \E i \in 1..Len(reqs) :
       /\ At(i, "decrement", "update")
       /\ SetColl("current_number",
                  update_one(db.current_number, "current_number",
                             reqs[i].loc.set, FALSE))
       /\ Resume(i, "find", NoLoc, <<>>)
       /\ UNCHANGED <<now, nextId>>
    \/ \E i \in 1..Len(reqs) :
       /\ At(i, "decrement", "find")
       /\ Resume(i, "done", NoLoc,
                 NumberResponse(find_one(db.current_number, "current_number")))
       /\ UNCHANGED <<db, now, nextId>>

ResetToZero(t) == [number |-> 0, updated_at |-> t]

\* update_data of reset_number
ResetData(t) == [number |-> 1, updated_at |-> t]

\* POST /number/reset
reset_number(lim) ==
    \/ /\ CanArrive(lim)
       /\ SetColl("current_number",
                  update_one(db.current_number, "current_number",
                             ResetData(now), TRUE))
       /\ Arrive(NewReq("reset", NoArg, "find", NoLoc, <<>>))
       /\ UNCHANGED <<now, nextId>>
    \/ \E i \in 1..Len(reqs) :
       /\ At(i, "reset", "find")
       /\ Resume(i, "done", NoLoc,
                 NumberResponse(find_one(db.current_number, "current_number")))
       /\ UNCHANGED <<db, now, nextId>>

(* -------------------- partial-update singleton handlers ---------------- *)

\* return Model(**doc) after the closing find_one; the model cannot be built
\* from None
Response(defaults, found) ==
    IF found = <<>> THEN Error(500) ELSE Ok(Parse(defaults, found[1]))

\* {"$set": {}}: servers older than MongoDB 5.0 reject an empty $set with
\* a write error, later ones accept it
EmptySet(set) == DOMAIN set = {}

\* GET /config
get_config(lim) ==
    \/ /\ CanArrive(lim)
       /\ LET config == find_one(db.app_config, "main_config")
          IN  IF config = <<>>
              THEN Arrive(NewReq("get_config", NoArg, "insert",
                                 [doc |-> AppConfig(now)], <<>>))
              ELSE Arrive(NewReq("get_config", NoArg, "done", NoLoc,
                                 Ok(Parse(AppConfig(now), config[1]))))
       /\ UNCHANGED <<db, now, nextId>>
    \/ \E i \in 1..Len(reqs) :
       /\ At(i, "get_config", "insert")
       /\ SetColl("app_config", insert_one(db.app_config, reqs[i].loc.doc))
       /\ Resume(i, "done", NoLoc, Ok(reqs[i].loc.doc))
       /\ UNCHANGED <<now, nextId>>

\* PUT /config
update_config(lim) ==
    \/ \E body \in AppConfigUpdateBodies :
       /\ CanArrive(lim)
       /\ SetColl("app_config",
                  update_one(db.app_config, "main_config",
                             SetFields(NotNone(body), [updated_at |-> now]), TRUE))
       /\ Arrive(NewReq("put_config", body, "find", NoLoc, <<>>))
       /\ UNCHANGED <<now, nextId>>
    \/ \E i \in 1..Len(reqs) :
       /\ At(i, "put_config", "find")
       /\ Resume(i, "done", NoLoc,
                 Response(AppConfig(now), find_one(db.app_config, "main_config")))
       /\ UNCHANGED <<db, now, nextId>>

\* GET /slides/settings
get_slide_settings(lim) ==
    \/ /\ CanArrive(lim)
       /\ LET settings == find_one(db.slide_settings, "slide_settings")
          IN  IF settings = <<>>
              THEN Arrive(NewReq("get_slide_settings", NoArg, "insert",
                                 [doc |-> SlideSettings(now)], <<>>))
              ELSE Arrive(NewReq("get_slide_settings", NoArg, "done", NoLoc,
                                 Ok(Parse(SlideSettings(now), settings[1]))))
       /\ UNCHANGED <<db, now, nextId>>
    \/ \E i \in 1..Len(reqs) :
       /\ At(i, "get_slide_settings", "insert")
       /\ SetColl("slide_settings", insert_one(db.slide_settings, reqs[i].loc.doc))
       /\ Resume(i, "done", NoLoc, Ok(reqs[i].loc.doc))
       /\ UNCHANGED <<now, nextId>>

\* PUT /slides/settings
update_slide_settings(lim) ==
    \/ \E body \in SlideSettingsUpdateBodies :
       /\ CanArrive(lim)
       /\ SetColl("slide_settings",
                  update_one(db.slide_settings, "slide_settings",
                             NotNone(body), TRUE))
       /\ Arrive(NewReq("put_slide_settings", body, "find", NoLoc, <<>>))
       /\ UNCHANGED <<now, nextId>>
    \/ \E body \in SlideSettingsUpdateBodies :
       /\ CanArrive(lim)
       /\ EmptySet(NotNone(body))
       /\ Arrive(NewReq("put_slide_settings", body, "done", NoLoc, Error(500)))
       /\ UNCHANGED <<db, now, nextId>>
    \/ \E i \in 1..Len(reqs) :
       /\ At(i, "put_slide_settings", "find")
       /\ Resume(i, "done", NoLoc,
                 Response(SlideSettings(now), find_one(db.slide_settings, "slide_settings")))
       /\ UNCHANGED <<db, now, nextId>>

\* GET /bluetooth
get_bluetooth_settings(lim) ==
    \/ /\ CanArrive(lim)
       /\ LET settings == find_one(db.bluetooth_remote, "bluetooth_remote")
          IN  IF settings = <<>>
              THEN Arrive(NewReq("get_bluetooth", NoArg, "insert",
                                 [doc |-> BluetoothRemote(now)], <<>>))
              ELSE Arrive(NewReq("get_bluetooth", NoArg, "done", NoLoc,
                                 Ok(Parse(BluetoothRemote(now), settings[1]))))
       /\ UNCHANGED <<db, now, nextId>>
    \/ \E i \in 1..Len(reqs) :
       /\ At(i, "get_bluetooth", "insert")
       /\ SetColl("bluetooth_remote", insert_one(db.bluetooth_remote, reqs[i].loc.doc))
       /\ Resume(i, "done", NoLoc, Ok(reqs[i].loc.doc))
       /\ UNCHANGED <<now, nextId>>

\* PUT /bluetooth
update_bluetooth_settings(lim) ==
    \/ \E body \in BluetoothRemoteUpdateBodies :
       /\ CanArrive(lim)
       /\ SetColl("bluetooth_remote",
                  update_one(db.bluetooth_remote, "bluetooth_remote",
                             NotNone(body), TRUE))
       /\ Arrive(NewReq("put_bluetooth", body, "find", NoLoc, <<>>))
       /\ UNCHANGED <<now, nextId>>
    \/ \E body \in BluetoothRemoteUpdateBodies :
       /\ CanArrive(lim)
       /\ EmptySet(NotNone(body))
       /\ Arrive(NewReq("put_bluetooth", body, "done", NoLoc, Error(500)))
       /\ UNCHANGED <<db, now, nextId>>
    \/ \E i \in 1..Len(reqs) :
       /\ At(i, "put_bluetooth", "find")
       /\ Resume(i, "done", NoLoc,
                 Response(BluetoothRemote(now), find_one(db.bluetooth_remote, "bluetooth_remote")))
       /\ UNCHANGED <<db, now, nextId>>

\* GET /voice
get_voice_settings(lim) ==
    \/ /\ CanArrive(lim)
       /\ LET settings == find_one(db.voice_settings, "voice_settings")
          IN  IF settings = <<>>
              THEN Arrive(NewReq("get_voice", NoArg, "insert",
                                 [doc |-> VoiceSettings(now)], <<>>))
              ELSE Arrive(NewReq("get_voice", NoArg, "done", NoLoc,
                                 Ok(Parse(VoiceSettings(now), settings[1]))))
       /\ UNCHANGED <<db, now, nextId>>
    \/ \E i \in 1..Len(reqs) :
       /\ At(i, "get_voice", "insert")
       /\ SetColl("voice_settings", insert_one(db.voice_settings, reqs[i].loc.doc))
       /\ Resume(i, "done", NoLoc, Ok(reqs[i].loc.doc))
       /\ UNCHANGED <<now, nextId>>

\* PUT /voice
update_voice_settings(lim) ==
    \/ \E body \in VoiceSettingsUpdateBodies :
       /\ CanArrive(lim)
       /\ SetColl("voice_settings",
                  update_one(db.voice_settings, "voice_settings",
                             NotNone(body), TRUE))
       /\ Arrive(NewReq("put_voice", body, "find", NoLoc, <<>>))
       /\ UNCHANGED <<now, nextId>>
    \/ \E body \in VoiceSettingsUpdateBodies :
       /\ CanArrive(lim)
       /\ EmptySet(NotNone(body))
       /\ Arrive(NewReq("put_voice", body, "done", NoLoc, Error(500)))
       /\ UNCHANGED <<db, now, nextId>>
    \/ \E i \in 1..Len(reqs) :
       /\ At(i, "put_voice", "find")
       /\ Resume(i, "done", NoLoc,
                 Response(VoiceSettings(now), find_one(db.voice_settings, "voice_settings")))
       /\ UNCHANGED <<db, now, nextId>>

(* --------------------------- slide handlers --------------------------- *)

\* the ids a DELETE /slides/{slide_id} path is drawn from: those uuid4() has
\* issued and one it has not
SlideIds == 1..nextId

\* POST /slides: SlideImage(**slide.dict()) rejects order = None, which
\* SlideImageCreate accepts; otherwise the one await is insert_one
create_slide(lim) ==
    \/ \E slide \in SlideImageCreate :
       /\ CanArrive(lim)
       /\ slide.order # <<>>
       /\ SetColl("slide_images",
                  insert_one(db.slide_images, SlideImage(nextId, slide, now)))
       /\ nextId' = nextId + 1
       /\ Arrive(NewReq("create_slide", slide, "done", NoLoc,
                        Ok(SlideImage(nextId, slide, now))))
       /\ UNCHANGED now
    \/ \E slide \in SlideImageCreate :
       /\ CanArrive(lim)
       /\ slide.order = <<>>
       /\ Arrive(NewReq("create_slide", slide, "done", NoLoc, Error(500)))
       /\ UNCHANGED <<db, now, nextId>>

\* DELETE /slides/{slide_id}: the one await is delete_one
delete_slide(lim) ==
    \/ \E slide_id \in SlideIds :
       /\ CanArrive(lim)
       /\ deleted_count(db.slide_images, slide_id) = 0
       /\ SetColl("slide_images", delete_one(db.slide_images, slide_id))
       /\ Arrive(NewReq("delete_slide", [slide_id |-> slide_id], "done", NoLoc,
                        Error(404)))
       /\ UNCHANGED <<now, nextId>>
    \/ \E slide_id \in SlideIds :
       /\ CanArrive(lim)
       /\ deleted_count(db.slide_images, slide_id) # 0
       /\ SetColl("slide_images", delete_one(db.slide_images, slide_id))
       /\ Arrive(NewReq("delete_slide", [slide_id |-> slide_id], "done", NoLoc,
                        Ok([message |-> "Slide deleted successfully"])))
       /\ UNCHANGED <<now, nextId>>

\* GET /slides: the one await is the sorted find; SlideImage(**slide)
\* rejects a document whose order is not an integer
get_slides(lim) ==
    \E slides \in find_sort_to_list(db.slide_images, ListCap) :
       /\ CanArrive(lim)
       /\ Arrive(NewReq("get_slides", NoArg, "done", NoLoc,
                        IF \E k \in 1..Len(slides) : slides[k].order = <<>>
                        THEN Error(500) ELSE Ok(slides)))
       /\ UNCHANGED <<db, now, nextId>>

\* the dicts a PUT /slides/reorder body is drawn from: an id issued or not,
\* with an order that is null or the least or the greatest integer a created
\* slide takes, and a dict without "id"
ReorderItems ==
    {[id |-> id, order |-> order] :
        id \in SlideIds, order \in {<<>>, <<0>>, <<MaxOrder>>}}
    \cup {[order |-> <<0>>]}

\* slide_orders: List[dict]
ReorderLists(n) == UNION {[1..k -> ReorderItems] : k \in 0..n}

\* item["id"] and item["order"] raise KeyError on a dict without the key
HasKeys(item) == "id" \in DOMAIN item /\ "order" \in DOMAIN item

\* the for loop of reorder_slides once item k has been applied: the next
\* item is looked up and its update awaited, or the handler returns
AfterItem(slide_orders, k) ==
    IF k = Len(slide_orders)
    THEN [pc |-> "done", loc |-> NoLoc,
          resp |-> Ok([message |-> "Slides reordered successfully"])]
    ELSE IF HasKeys(slide_orders[k + 1])
         THEN [pc |-> "update", loc |-> [k |-> k + 1], resp |-> <<>>]
         ELSE [pc |-> "done", loc |-> NoLoc, resp |-> Error(500)]

ReorderUpsert(item) ==
    SetColl("slide_images",
            update_one(db.slide_images, item.id, [order |-> item.order], TRUE))

\* update_one({"id": item["id"]}, {"$set": {"order": item["order"]}})
ReorderOne(item) ==
    SetColl("slide_images",
            update_one(db.slide_images, item.id, [order |-> item.order], FALSE))

\* PUT /slides/reorder: one awaited update_one without upsert per item
reorder_slides(lim) ==
    \/ \E slide_orders \in ReorderLists(lim.items) :
       /\ CanArrive(lim)
       /\ IF Len(slide_orders) = 0 THEN TRUE ELSE ~HasKeys(slide_orders[1])
       /\ Arrive(NewReq("reorder_slides", slide_orders, "done", NoLoc,
                        IF Len(slide_orders) = 0
                        THEN Ok([message |-> "Slides reordered successfully"])
                        ELSE Error(500)))
       /\ UNCHANGED <<db, now, nextId>>
    \/ \E slide_orders \in ReorderLists(lim.items) :
       /\ CanArrive(lim)
       /\ IF Len(slide_orders) = 0 THEN FALSE ELSE HasKeys(slide_orders[1])
       /\ ReorderOne(slide_orders[1])
       /\ LET next == AfterItem(slide_orders, 1)
          IN  Arrive(NewReq("reorder_slides", slide_orders,
                            next.pc, next.loc, next.resp))
       /\ UNCHANGED <<now, nextId>>
    \/ \E i \in 1..Len(reqs) :
       /\ At(i, "reorder_slides", "update")
       /\ ReorderOne(reqs[i].arg[reqs[i].loc.k])
       /\ LET next == AfterItem(reqs[i].arg, reqs[i].loc.k)
          IN  Resume(i, next.pc, next.loc, next.resp)
       /\ UNCHANGED <<now, nextId>>

(* --------------------------- news and weather -------------------------- *)

\* the feed URL and the city of an absent configuration or an absent field
DefaultFeed == "'https://news.google.com/rss?hl=it&gl=IT&ceid=IT:it'"

DefaultCity == "'ROMA'"

\* what is behind the feed URL when a request reads it: nothing that
\* answers, or a feed of some entries, each with a title or one without
Feeds ==
    {[reachable |-> FALSE, size |-> 0, titled |-> TRUE]}
    \cup {[reachable |-> TRUE, size |-> n, titled |-> t] :
             n \in {0, 1, NewsCap, NewsCap + 1}, t \in BOOLEAN}

\* the entries of a feed; the last one is the one without a title
Entries(feed) ==
    [k \in 1..feed.size |->
        IF feed.titled \/ k < feed.size
        THEN [title |-> k, link |-> k] ELSE [link |-> k]]

\* feedparser.parse(rss_url): the parser reports a URL it cannot open in the
\* result (bozo) and returns no entries, and lets other failures of the
\* fetch raise
parse(feed) ==
    IF feed.reachable
    THEN {[raised |-> FALSE, entries |-> Entries(feed)]}
    ELSE {[raised |-> FALSE, entries |-> <<>>], [raised |-> TRUE]}

\* the try block after the fetch: entry.title raises on an entry without one
NewsItems(entries) ==
    LET top == SubSeq(entries, 1, IF Len(entries) < NewsCap THEN Len(entries)
                                  ELSE NewsCap)
    IN  IF \E k \in 1..Len(top) : "title" \notin DOMAIN top[k]
        THEN [news |-> <<>>, error |-> "'title'"]
        ELSE [news |-> [k \in 1..Len(top) |->
                           [title |-> top[k].title, link |-> top[k].link,
                            published |-> Get(top[k], "published", "''")]]]

\* GET /news: the one await is the find_one; every exception is answered
\* with an empty list and the error text
get_news_feed(lim) ==
    \E feed \in Feeds :
        \E result \in parse(feed) :
           /\ CanArrive(lim)
           /\ LET config == find_one(db.app_config, "main_config")
                  rss_url == IF config = <<>> THEN DefaultFeed
                             ELSE Get(config[1], "rss_feed_url", DefaultFeed)
              IN  Arrive(NewReq("get_news", feed, "done", [rss_url |-> rss_url],
                                Ok(IF result.raised
                                   THEN [news |-> <<>>, error |-> "'URLError'"]
                                   ELSE NewsItems(result.entries))))
           /\ UNCHANGED <<db, now, nextId>>

AlwaysRoma(config) == DefaultCity

\* config.get("city", "ROMA") if config else "ROMA"
City(config) ==
    IF config = <<>> THEN DefaultCity ELSE Get(config[1], "city", DefaultCity)

\* GET /weather: the mocked weather of the configured city
get_weather(lim) ==
    /\ CanArrive(lim)
    /\ Arrive(NewReq("get_weather", NoArg, "done", NoLoc,
                     Ok([city |-> City(find_one(db.app_config, "main_config")),
                         current |-> [temp |-> 32, condition |-> "'sunny'"]])))
    /\ UNCHANGED <<db, now, nextId>>

(* --------------------------- specifications --------------------------- *)

\* the number handlers, requests served one at a time
NextNumberSeq ==
    \/ Tick
    \/ get_current_number(OneByOne)
    \/ update_number(OneByOne)
    \/ increment_number(OneByOne)
    \/ decrement_number(OneByOne)
    \/ reset_number(OneByOne)

SpecNumberSeq == Init /\ [][NextNumberSeq]_vars

\* the number handlers, requests interleaved at their awaits within one
\* tick of the clock
NextNumber ==
    \/ get_current_number(Interleaved)
    \/ update_number(Interleaved)
    \/ increment_number(Interleaved)
    \/ decrement_number(Interleaved)
    \/ reset_number(Interleaved)

SpecNumber == Init /\ [][NextNumber]_vars

\* the singleton GET and partial-update PUT handlers, requests served one at
\* a time
NextSingletonSeq ==
    \/ Tick
    \/ get_config(ShortOneByOne)
    \/ update_config(ShortOneByOne)
    \/ get_slide_settings(ShortOneByOne)
    \/ update_slide_settings(ShortOneByOne)
    \/ get_current_number(ShortOneByOne)
    \/ update_number(ShortOneByOne)
    \/ get_bluetooth_settings(ShortOneByOne)
    \/ update_bluetooth_settings(ShortOneByOne)
    \/ get_voice_settings(ShortOneByOne)
    \/ update_voice_settings(ShortOneByOne)

SpecSingletonSeq == Init /\ [][NextSingletonSeq]_vars

\* the slide handlers, requests served one at a time
NextSlidesSeq ==
    \/ Tick
    \/ create_slide(OneByOne)
    \/ delete_slide(OneByOne)

SpecSlidesSeq == Init /\ [][NextSlidesSeq]_vars

\* all four slide handlers, requests served one at a time within one tick
\* of the clock
NextSlides ==
    \/ create_slide(OneByOne)
    \/ delete_slide(OneByOne)
    \/ reorder_slides(OneByOne)
    \/ get_slides(OneByOne)

SpecSlides == Init /\ [][NextSlides]_vars

\* the configuration and its two readers, requests served one at a time
NextFeeds ==
    \/ Tick
    \/ get_config(ShortOneByOne)
    \/ update_config(ShortOneByOne)
    \/ get_news_feed(ShortOneByOne)
    \/ get_weather(ShortOneByOne)

SpecFeeds == Init /\ [][NextFeeds]_vars

\* every endpoint, requests served one at a time at one instant
NextAll ==
    \/ get_config(ShortOneByOne)
    \/ update_config(ShortOneByOne)
    \/ get_slides(ShortOneByOne)
    \/ create_slide(ShortOneByOne)
    \/ delete_slide(ShortOneByOne)
    \/ reorder_slides(ShortOneByOne)
    \/ get_slide_settings(ShortOneByOne)
    \/ update_slide_settings(ShortOneByOne)
    \/ get_current_number(ShortOneByOne)
    \/ update_number(ShortOneByOne)
    \/ increment_number(ShortOneByOne)
    \/ decrement_number(ShortOneByOne)
    \/ reset_number(ShortOneByOne)
    \/ get_news_feed(ShortOneByOne)
    \/ get_weather(ShortOneByOne)
    \/ get_bluetooth_settings(ShortOneByOne)
    \/ update_bluetooth_settings(ShortOneByOne)
    \/ get_voice_settings(ShortOneByOne)
    \/ update_voice_settings(ShortOneByOne)

SpecAll == Init /\ [][NextAll]_vars

\* the number endpoints other than PUT /number, requests interleaved at
\* their awaits within one tick of the clock
NextNumberNoPut ==
    \/ get_current_number(Interleaved)
    \/ increment_number(Interleaved)
    \/ decrement_number(Interleaved)
    \/ reset_number(Interleaved)

SpecNumberNoPut == Init /\ [][NextNumberNoPut]_vars

(* ------------------------- reading the state -------------------------- *)

\* the store once request i has returned, when requests are served one at
\* a time: what the next request found, or the present store
PostDb(i) == IF i < Len(reqs) THEN reqs[i + 1].pre ELSE db

\* the number find_one reads from a store, 1 standing for an absent document
StoredNumber(d) ==
    IF find_one(d.current_number, "current_number") = <<>> THEN 1
    ELSE find_one(d.current_number, "current_number")[1].number

HasNumber(d) == find_one(d.current_number, "current_number") # <<>>

Returned(i, op) == i \in 1..Len(reqs) /\ reqs[i].op = op /\ Done(reqs[i])

RespNumber(i) == reqs[i].resp[1].body.number

Succeeded(i) == reqs[i].resp[1].status = 200

(* ------------------------------ claims -------------------------------- *)

\* the defaults the data model documents, per singleton collection
Documented ==
    [app_config |-> [id |-> "main_config", logo_base64 |-> "null",
                     weather_api_key |-> "null"],
     slide_settings |-> [id |-> "slide_settings", interval_seconds |-> "10",
                         transition_effect |-> "'fade'", auto_play |-> "true"],
     current_number |-> [id |-> "current_number", number |-> 1],
     bluetooth_remote |-> [id |-> "bluetooth_remote", device_name |-> "null",
                           device_id |-> "null",
                           button_a_action |-> "'increment'",
                           button_b_action |-> "'decrement'",
                           button_c_action |-> "'reset'",
                           button_d_action |-> "'none'", is_paired |-> "false"],
     voice_settings |-> [id |-> "voice_settings", enabled |-> "true",
                         voice_type |-> "'female'", pitch |-> "1.0",
                         rate |-> "1.0",
                         phrase_template |-> "'Numero {number}'",
                         language |-> "'it-IT'"]]

GetOf ==
    [app_config |-> "get_config", slide_settings |-> "get_slide_settings",
     current_number |-> "get_number", bluetooth_remote |-> "get_bluetooth",
     voice_settings |-> "get_voice"]

PutOf ==
    [app_config |-> "put_config", slide_settings |-> "put_slide_settings",
     bluetooth_remote |-> "put_bluetooth", voice_settings |-> "put_voice"]

RespBody(i) == reqs[i].resp[1].body

C2_PartialUpdateFrame ==
    \A c \in DOMAIN PutOf : \A i \in 1..Len(reqs) :
        (Returned(i, PutOf[c]) /\ reqs[i].pre[c] # <<>>) =>
            LET body == reqs[i].arg
                S == {f \in DOMAIN body : body[f] # "null"}
                old == reqs[i].pre[c][1]
                new == PostDb(i)[c][1]
                Stamp == IF c = "app_config" THEN {"updated_at"} ELSE {}
            IN  /\ Len(PostDb(i)[c]) = Len(reqs[i].pre[c])
                /\ \A f \in S : f \in DOMAIN new /\ new[f] = body[f]
                /\ \A f \in ((DOMAIN old) \cup (DOMAIN new)) \ (S \cup Stamp) :
                      f \in DOMAIN old /\ f \in DOMAIN new /\ new[f] = old[f]
                /\ Succeeded(i) =>
                      /\ \A f \in S : RespBody(i)[f] = body[f]
                      /\ \A f \in ((DOMAIN body) \ S) \cap (DOMAIN old) :
                            RespBody(i)[f] = old[f]

\* PUT /slides/settings supplying interval_seconds = 0 alone on the default
\* document, and PUT /bluetooth supplying is_paired = false over a stored true
C2_Witness ==
    /\ Len(reqs) = 2
    /\ \/ /\ Returned(1, "get_slide_settings")
          /\ Returned(2, "put_slide_settings")
          /\ reqs[2].arg.interval_seconds = "0"
          /\ reqs[2].arg.auto_play = "null"
          /\ db.slide_settings[1].interval_seconds = "0"
          /\ db.slide_settings[1].auto_play = "true"
       \/ /\ Returned(1, "put_bluetooth") /\ reqs[1].arg.is_paired = "true"
          /\ Returned(2, "put_bluetooth") /\ reqs[2].arg.is_paired = "false"
          /\ db.bluetooth_remote[1].is_paired = "false"

\* C3: a decrement served alone stores and returns max(1, current - 1),
\* current being 1 when the document is absent
C3_DecrementFloor ==
    \A i \in 1..Len(reqs) :
        Returned(i, "decrement") =>
            LET n == StoredNumber(reqs[i].pre)
                m == IF n - 1 < 1 THEN 1 ELSE n - 1
            IN  /\ Succeeded(i)
                /\ RespNumber(i) = m
                /\ HasNumber(PostDb(i))
                /\ StoredNumber(PostDb(i)) = m

\* three decrements in a row on a fresh store, each returning 1, the last
\* one finding the document holding 1
C3_Witness ==
    /\ Len(reqs) = 3
    /\ \A i \in 1..3 : Returned(i, "decrement") /\ RespNumber(i) = 1
    /\ HasNumber(reqs[3].pre) /\ StoredNumber(reqs[3].pre) = 1

\* C4: no increment or decrement writes a number below 1, whatever the
\* stored value it read
C4_NoWriteBelowOne ==
    [][\A i \in 1..Len(reqs) :
          (/\ reqs[i].op \in {"increment", "decrement"}
           /\ reqs[i].pc = "update"
           /\ reqs'[i].pc = "find")
          => StoredNumber(db') >= 1]_vars

\* C5: two increments that both read N, with no other increment or
\* decrement around them, leave N + 1 in the store: one increment is lost
C5_LostUpdate ==
    \A i \in 1..Len(reqs) :
        (/\ i + 1 = Len(reqs)
         /\ Returned(i, "increment") /\ Returned(i + 1, "increment")
         /\ StoredNumber(reqs[i].pre) = StoredNumber(reqs[i + 1].pre)
         /\ \A k \in 1..(i - 1) : reqs[k].op \notin {"increment", "decrement"})
        => /\ StoredNumber(db) = StoredNumber(reqs[i].pre) + 1
           /\ RespNumber(i + 1) = StoredNumber(reqs[i].pre) + 1

\* both increments found the document holding 2 and both returned; the
\* store holds 3
C5_Witness ==
    /\ Len(reqs) = 3
    /\ Returned(1, "put_number") /\ reqs[1].arg.number = 2
    /\ Returned(2, "increment") /\ Returned(3, "increment")
    /\ HasNumber(reqs[2].pre) /\ StoredNumber(reqs[2].pre) = 2
    /\ HasNumber(reqs[3].pre) /\ StoredNumber(reqs[3].pre) = 2
    /\ StoredNumber(db) = 3

FixedId ==
    [app_config |-> "main_config", slide_settings |-> "slide_settings",
     current_number |-> "current_number", bluetooth_remote |-> "bluetooth_remote",
     voice_settings |-> "voice_settings"]

\* C6: every singleton collection holds at most one document with its
\* fixed id
C6_AtMostOneDocument ==
    \A c \in DOMAIN FixedId : Cardinality(Matches(db[c], FixedId[c])) <= 1

\* C7: from a stored N >= 1, an increment then a decrement, served one
\* after the other, leave N and the decrement returns N
C7_IncrementThenDecrement ==
    \A i \in 1..Len(reqs) :
        (/\ Returned(i, "increment") /\ Returned(i + 1, "decrement")
         /\ HasNumber(reqs[i].pre)
         /\ StoredNumber(reqs[i].pre) >= 1)
        => /\ Succeeded(i + 1)
           /\ RespNumber(i + 1) = StoredNumber(reqs[i].pre)
           /\ StoredNumber(PostDb(i + 1)) = StoredNumber(reqs[i].pre)

\* the pair ran from a stored 1 and from a stored 2
C7_Witness ==
    /\ Len(reqs) = 3
    /\ Returned(1, "put_number") /\ reqs[1].arg.number = 2
    /\ Returned(2, "increment") /\ Returned(3, "decrement")
    /\ RespNumber(2) = 3 /\ RespNumber(3) = 2

\* C8: k increments served in a row from a stored N leave N + k, each
\* returning what it wrote; the first increment on a fresh store creates the
\* document and returns 2
C8_IncrementsAdd ==
    /\ \A i, j \in 1..Len(reqs) :
          (/\ i <= j
           /\ \A k \in i..j : Returned(k, "increment"))
          => /\ Succeeded(j)
             /\ RespNumber(j) = StoredNumber(reqs[i].pre) + (j - i + 1)
             /\ StoredNumber(PostDb(j)) = StoredNumber(reqs[i].pre) + (j - i + 1)
    /\ Returned(1, "increment")
          => /\ RespNumber(1) = 2
             /\ Len(PostDb(1).current_number) = 1

\* MaxReqs increments in a row on a fresh store
C8_Witness ==
    /\ Len(reqs) = MaxReqs
    /\ \A k \in 1..MaxReqs : Returned(k, "increment")
    /\ reqs[1].pre.current_number = <<>>
    /\ StoredNumber(db) = MaxReqs + 1

\* C9: a reset served alone leaves 1 in the store and returns 1, whatever the
\* collection held
C9_ResetYieldsOne ==
    \A i \in 1..Len(reqs) :
        Returned(i, "reset") =>
            /\ Succeeded(i)
            /\ RespNumber(i) = 1
            /\ HasNumber(PostDb(i))
            /\ StoredNumber(PostDb(i)) = 1

\* resets of an absent document, of a negative number and of a positive one
C9_Witness ==
    /\ Len(reqs) = 3
    /\ Returned(1, "reset") /\ reqs[1].pre.current_number = <<>>
    /\ Returned(2, "put_number") /\ reqs[2].arg.number < 0
    /\ Returned(3, "reset") /\ StoredNumber(reqs[3].pre) < 0

\* the documents of coll whose id is not id, in store order
Others(coll, id) == SelectSeq(coll, LAMBDA d : d.id # id)

\* C10: DELETE /slides/{id} of an id no slide has answers 404 and leaves the
\* collection as it was; of an id a slide has, it answers success and leaves
\* the other slides, unchanged, and no slide with that id
C10_DeleteSlide ==
    \A i \in 1..Len(reqs) :
        Returned(i, "delete_slide") =>
            LET slide_id == reqs[i].arg.slide_id
                before == reqs[i].pre.slide_images
                after == PostDb(i).slide_images
            IN  IF \A k \in 1..Len(before) : before[k].id # slide_id
                THEN /\ reqs[i].resp[1].status = 404
                     /\ after = before
                ELSE /\ Succeeded(i)
                     /\ Len(after) = Len(before) - 1
                     /\ after = Others(before, slide_id)

\* the second of two slides deleted, the first one left as it was
C10_Witness ==
    /\ Len(reqs) = 3
    /\ Returned(1, "create_slide") /\ Succeeded(1)
    /\ Returned(2, "create_slide") /\ Succeeded(2)
    /\ Returned(3, "delete_slide") /\ Succeeded(3)
    /\ reqs[3].arg.slide_id = RespBody(2).id
    /\ db.slide_images = <<RespBody(1)>>

\* C11: after any sequence of slide creations, deletions and reorders, GET
\* /slides answers with a list in non-decreasing order of the field order,
\* of at most ListCap slides and of all the slides when the collection holds
\* no more than ListCap, each slide as the store holds it
C11_SlidesSorted ==
    \A i \in 1..Len(reqs) :
        Returned(i, "get_slides") =>
            /\ Succeeded(i)
            /\ LET slides == RespBody(i)
                   stored == reqs[i].pre.slide_images
               IN  /\ \A k \in 1..Len(slides) - 1 :
                          ~OrderLess(slides[k + 1].order, slides[k].order)
                   /\ Len(slides) <= ListCap
                   /\ Len(stored) <= ListCap => Len(slides) = Len(stored)
                   /\ \A k \in 1..Len(slides) :
                          \E j \in 1..Len(stored) : slides[k] = stored[j]

\* C12: GET /news never ends in an error response; when the feed URL does
\* not answer, or an entry cannot be read, the response carries an empty news
\* list and an error text; otherwise news holds the first NewsCap entries of
\* the feed, or all of them when they are fewer
C12_NewsNeverFails ==
    \A i \in 1..Len(reqs) :
        Returned(i, "get_news") =>
            /\ Succeeded(i)
            /\ LET feed == reqs[i].arg
                   body == RespBody(i)
               IN  IF ~feed.reachable \/ (~feed.titled /\ feed.size <= NewsCap
                                                       /\ feed.size > 0)
                   THEN body.news = <<>> /\ "error" \in DOMAIN body
                   ELSE /\ Len(body.news) <= NewsCap
                        /\ Len(body.news) = IF feed.size < NewsCap THEN feed.size
                                            ELSE NewsCap
                        /\ \A k \in 1..Len(body.news) : body.news[k].title = k

\* the PUT of every singleton, PUT /number included
UpsertOf ==
    [app_config |-> "put_config", slide_settings |-> "put_slide_settings",
     current_number |-> "put_number", bluetooth_remote |-> "put_bluetooth",
     voice_settings |-> "put_voice"]

\* C13: a PUT answered with success on a singleton whose document does not
\* exist leaves exactly one document, with the fixed id; its response has
\* the supplied fields as supplied and the other documented fields at their
\* defaults; the GET that follows returns the same values and adds no
\* document
C13_UpsertCreates ==
    \A c \in DOMAIN UpsertOf : \A i \in 1..Len(reqs) :
        (Returned(i, UpsertOf[c]) /\ reqs[i].pre[c] = <<>> /\ Succeeded(i)) =>
            LET body == reqs[i].arg
                S == IF c = "current_number" THEN {"number"}
                     ELSE {f \in DOMAIN body : body[f] # "null"}
            IN  /\ Len(PostDb(i)[c]) = 1
                /\ PostDb(i)[c][1].id = FixedId[c]
                /\ \A f \in S : RespBody(i)[f] = body[f]
                /\ \A f \in (DOMAIN Documented[c]) \ S :
                      RespBody(i)[f] = Documented[c][f]
                /\ Returned(i + 1, GetOf[c]) =>
                      /\ RespBody(i + 1) = RespBody(i)
                      /\ Len(PostDb(i + 1)[c]) = 1

\* the number of leading items of a reorder list that have both keys
RECURSIVE Applied(_)
Applied(list) ==
    IF Len(list) = 0 THEN 0
    ELSE IF HasKeys(list[1]) THEN 1 + Applied(Tail(list)) ELSE 0

\* C14: a returned PUT /slides/reorder leaves the collection with the same
\* slides in the same places; a slide named by an item that was reached has
\* the order of the last such item, every other slide its order of before,
\* and no other field of any slide differs; the request succeeds whenever
\* every item has its keys, whether or not the ids match
C14_ReorderFrame ==
    \A i \in 1..Len(reqs) :
        Returned(i, "reorder_slides") =>
            LET list == reqs[i].arg
                n == Applied(list)
                before == reqs[i].pre.slide_images
                after == PostDb(i).slide_images
                Naming(id) == {j \in 1..n : list[j].id = id}
            IN  /\ Len(after) = Len(before)
                /\ \A k \in 1..Len(before) :
                      /\ DOMAIN after[k] = DOMAIN before[k]
                      /\ \A f \in (DOMAIN before[k]) \ {"order"} :
                            after[k][f] = before[k][f]
                      /\ after[k].order =
                            IF Naming(before[k].id) = {} THEN before[k].order
                            ELSE list[CHOOSE j \in Naming(before[k].id) :
                                         \A m \in Naming(before[k].id) : m <= j].order
                /\ Succeeded(i) <=> n = Len(list)

\* two slides created with order 0; a reorder naming the first one twice and
\* no other has left it with the order of the second item, the other slide
\* as it was
C14_Witness ==
    /\ Len(reqs) = 3
    /\ Returned(1, "create_slide") /\ Succeeded(1) /\ RespBody(1).order = <<0>>
    /\ Returned(2, "create_slide") /\ Succeeded(2) /\ RespBody(2).order = <<0>>
    /\ Returned(3, "reorder_slides") /\ Succeeded(3)
    /\ reqs[3].arg = <<[id |-> RespBody(1).id, order |-> <<0>>],
                       [id |-> RespBody(1).id, order |-> <<MaxOrder>>]>>
    /\ db.slide_images = <<[RespBody(1) EXCEPT !.order = <<MaxOrder>>],
                           RespBody(2)>>

\* C15: the only request that ends in an error is a DELETE /slides/{id} of
\* an id no slide has; every other request the endpoints take in ends in
\* success
C15_OnlyDeleteFails ==
    \A i \in 1..Len(reqs) :
        Done(reqs[i]) =>
            \/ Succeeded(i)
            \/ /\ reqs[i].op = "delete_slide"
               /\ reqs[i].resp[1].status = 404
               /\ \A k \in 1..Len(reqs[i].pre.slide_images) :
                     reqs[i].pre.slide_images[k].id # reqs[i].arg.slide_id

\* the collections the handler of an operation writes to
Owns ==
    [get_config |-> {"app_config"}, put_config |-> {"app_config"},
     get_slides |-> {"slide_images"}, create_slide |-> {"slide_images"},
     delete_slide |-> {"slide_images"}, reorder_slides |-> {"slide_images"},
     get_slide_settings |-> {"slide_settings"},
     put_slide_settings |-> {"slide_settings"},
     get_number |-> {"current_number"}, put_number |-> {"current_number"},
     increment |-> {"current_number"}, decrement |-> {"current_number"},
     reset |-> {"current_number"},
     get_news |-> {}, get_weather |-> {},
     get_bluetooth |-> {"bluetooth_remote"},
     put_bluetooth |-> {"bluetooth_remote"},
     get_voice |-> {"voice_settings"}, put_voice |-> {"voice_settings"}]

\* C16: a step that changes a collection is a step of a request whose
\* handler owns that collection; the handlers of news and weather own none
C16_Independent ==
    [][\A c \in Collections :
          db'[c] # db[c] =>
              \E i \in 1..Len(reqs') :
                  /\ i > Len(reqs) \/ reqs'[i] # reqs[i]
                  /\ c \in Owns[reqs'[i].op]]_vars

\* a configuration and a number stored by two requests, the second one
\* having left the configuration as it found it
C16_Witness ==
    /\ Len(reqs) = 2
    /\ Returned(1, "put_config") /\ Succeeded(1)
    /\ Returned(2, "increment") /\ Succeeded(2)
    /\ db.app_config # <<>>
    /\ db.app_config = reqs[2].pre.app_config
    /\ db.current_number # <<>>
    /\ \A c \in Collections \ {"app_config", "current_number"} : db[c] = <<>>

\* C17: with no PUT /number, however GET /number, increment, decrement and
\* reset interleave from the empty store, every stored number is at least 1
\* and so is the number of every response
C17_NumberAtLeastOne ==
    /\ \A k \in 1..Len(db.current_number) : db.current_number[k].number >= 1
    /\ \A i \in 1..Len(reqs) : Done(reqs[i]) => RespNumber(i) >= 1

\* a decrement and another request have both found the document absent and
\* both created it, and the decrement has answered 1
C17_Witness ==
    /\ Len(db.current_number) = 2
    /\ \E i \in 1..Len(reqs) : Returned(i, "decrement") /\ RespNumber(i) = 1
    /\ \E i \in 1..Len(reqs) : Returned(i, "increment") /\ RespNumber(i) = 2

\* C18: GET /news and GET /weather leave every collection as they found it,
\* an absent configuration included; weather answers with the city of the
\* stored configuration and news reads the feed URL of the stored
\* configuration, each falling back to its hardcoded default
C18_ReadOnly ==
    \A i \in 1..Len(reqs) :
        (Returned(i, "get_news") \/ Returned(i, "get_weather")) =>
            LET stored == reqs[i].pre.app_config
                config == IF stored = <<>> THEN AppConfig(0)
                          ELSE Parse(AppConfig(0), stored[1])
            IN  /\ PostDb(i) = reqs[i].pre
                /\ reqs[i].op = "get_weather" => RespBody(i).city = config.city
                /\ reqs[i].op = "get_news" =>
                      reqs[i].loc.rss_url = config.rss_feed_url

\* the weather of the city a PUT /config has stored
C18_Witness ==
    /\ Len(reqs) = 2
    /\ Returned(1, "put_config") /\ reqs[1].arg.city = "'MILANO'"
    /\ Returned(2, "get_weather") /\ RespBody(2).city = "'MILANO'"
    /\ db = reqs[2].pre

\* the optional fields of the singletons
OptionalFields ==
    [app_config |-> {"logo_base64", "weather_api_key"},
     bluetooth_remote |-> {"device_name", "device_id"}]

\* the value find_one reads for field f of singleton c in the store d, null
\* standing for an absent document and for an absent field
StoredField(d, c, f) ==
    IF find_one(d[c], FixedId[c]) = <<>> THEN "null"
    ELSE Get(find_one(d[c], FixedId[c])[1], f, "null")

\* C19: no step of any endpoint turns a stored non-null logo_base64,
\* weather_api_key, device_name or device_id into null or removes it
C19_NeverCleared ==
    [][\A c \in DOMAIN OptionalFields : \A f \in OptionalFields[c] :
          StoredField(db, c, f) # "null" => StoredField(db', c, f) # "null"]_vars

\* a logo stored by one PUT /config is still there after a second PUT that
\* supplies the city and null for the logo
C19_Witness ==
    /\ Len(reqs) = 2
    /\ Returned(1, "put_config") /\ reqs[1].arg.logo_base64 = "'iVBOR'"
    /\ Returned(2, "put_config") /\ reqs[2].arg.logo_base64 = "null"
    /\ reqs[2].arg.city = "'MILANO'"
    /\ StoredField(db, "app_config", "logo_base64") = "'iVBOR'"
    /\ StoredField(db, "app_config", "city") = "'MILANO'"

====
